---- MODULE Spec2Model ----
(***************************************************************************)
(* Diabetes risk scoring: the remote waterfall predictor                   *)
(* (supabase/functions/diabetes-prediction/index.ts), the local fallback   *)
(* scorer and the prediction orchestrator (src/utils/diabetesPrediction.ts)*)
(*                                                                         *)
(* Number representation.  JavaScript numbers are modelled as exact        *)
(* fixed-point decimals:                                                   *)
(*   - a metric value is a record [nan, v] with v in tenths (27.1 -> 271); *)
(*   - a stage score / risk score is an integer in hundredths (0.95 -> 95);*)
(*   - the ensemble score is an integer in thousandths;                    *)
(*   - a confidence is an integer in units of 10^-7 (1.0 -> 10000000).     *)
(* Strings are tuples of one-character strings, so that parseFloat and     *)
(* toLowerCase are computed character by character.                        *)
(***************************************************************************)
EXTENDS Integers, Sequences, FiniteSets, TLC

VARIABLES
    wm,             \* remote pipeline: the HealthMetrics handed to predict
    wresult,        \* remote pipeline: the PredictionResult, or NoResult
    lm,             \* local fallback: the (string) HealthMetrics
    lrandom,        \* local fallback: the value Math.random returned (millionths)
    lresult,        \* local fallback: the DiagnosisData, or NoResult
    method,         \* serve handler: req.method
    body,           \* serve handler: the parsed JSON body of the request
    hpc,            \* serve handler: position in the handler
    hmetrics,       \* serve handler: the converted metrics
    stagesInvoked,  \* serve handler: the scoring stages run for this request
    hdelay,         \* serve handler: the processing delay drawn (ms)
    prediction,     \* serve handler: the prediction awaiting the delay
    response,       \* serve handler: the Response sent, or NoResult
    served,         \* serve handler: the earlier runs on this body (response, delay)
    om,             \* orchestrator: the metrics getPredictionAsync was called with
    opc,            \* orchestrator: position in getPredictionAsync
    invokeCount,    \* orchestrator: outbound calls issued
    invokeResult,   \* orchestrator: what the invoke call settled with
    timerMs,        \* orchestrator: delay of the fallback timer set, 0 if none
    fallbackCalls,  \* orchestrator: the metrics predictDiabetes was called on
    osettle,        \* orchestrator: state of the returned promise
    oresult,        \* orchestrator: the value the promise resolved with
    currentStep,    \* Index page: 'form', 'loading' or 'result'
    diagnosisResult, \* Index page: the DiagnosisData shown, or NoResult for null
    isLoading,      \* Index page: the isLoading flag handed to the form
    inFlight        \* Index page: calls of getPredictionAsync not yet settled

remoteVars == <<wm, wresult>>
localVars == <<lm, lrandom, lresult>>
serveVars == <<method, body, hpc, hmetrics, stagesInvoked, hdelay, prediction, response, served>>
orchVars == <<om, opc, invokeCount, invokeResult, timerMs, fallbackCalls, osettle, oresult>>
pageVars == <<currentStep, diagnosisResult, isLoading, inFlight>>
vars == <<wm, wresult, lm, lrandom, lresult,
          method, body, hpc, hmetrics, stagesInvoked, hdelay, prediction, response, served,
          om, opc, invokeCount, invokeResult, timerMs, fallbackCalls, osettle, oresult,
          currentStep, diagnosisResult, isLoading, inFlight>>

NoResult == [none |-> TRUE]

----------------------------------------------------------------------------
(* Numbers and strings *)

Num(x) == [nan |-> FALSE, v |-> x]
NaN == [nan |-> TRUE, v |-> 0]

\* IEEE comparisons: every comparison with NaN is false.
Ge(a, k) == ~a.nan /\ a.v >= k
Gt(a, k) == ~a.nan /\ a.v > k
Lt(a, k) == ~a.nan /\ a.v < k

Min(a, b) == IF a <= b THEN a ELSE b
Max(a, b) == IF a >= b THEN a ELSE b

UpperChars == <<"A","B","C","D","E","F","G","H","I","J","K","L","M",
                "N","O","P","Q","R","S","T","U","V","W","X","Y","Z">>
LowerChars == <<"a","b","c","d","e","f","g","h","i","j","k","l","m",
                "n","o","p","q","r","s","t","u","v","w","x","y","z">>

LowerChar(c) ==
    IF \E i \in DOMAIN UpperChars : UpperChars[i] = c
    THEN LowerChars[CHOOSE i \in DOMAIN UpperChars : UpperChars[i] = c]
    ELSE c

ToLowerCase(s) == [i \in DOMAIN s |-> LowerChar(s[i])]

GenderMale == <<"m","a","l","e">>
GenderFemale == <<"f","e","m","a","l","e">>
GenderOther == <<"o","t","h","e","r">>

----------------------------------------------------------------------------
(* Remote waterfall predictor: class DiabetesWaterfallModel *)

\* (mutant) borderline glucose scored as impaired fasting glucose
glucoseScreeningBorderlineHigh(glucose) ==
    IF Ge(glucose, 2000) THEN
        [score |-> 95,
         factors |-> <<"Severely elevated glucose (>=200 mg/dL) - Immediate diabetes indicator">>]
    ELSE IF Ge(glucose, 1260) THEN
        [score |-> 80,
         factors |-> <<"Fasting glucose >=126 mg/dL - Diabetes threshold">>]
    ELSE IF Ge(glucose, 900) THEN
        [score |-> 40,
         factors |-> <<"Impaired fasting glucose (100-125 mg/dL) - Pre-diabetes">>]
    ELSE
        [score |-> 10, factors |-> <<>>]

\* (mutant) the diabetes threshold made exclusive
glucoseScreeningExclusive(glucose) ==
    IF Ge(glucose, 2000) THEN
        [score |-> 95,
         factors |-> <<"Severely elevated glucose (>=200 mg/dL) - Immediate diabetes indicator">>]
    ELSE IF Gt(glucose, 1260) THEN
        [score |-> 80,
         factors |-> <<"Fasting glucose >=126 mg/dL - Diabetes threshold">>]
    ELSE IF Ge(glucose, 1000) THEN
        [score |-> 40,
         factors |-> <<"Impaired fasting glucose (100-125 mg/dL) - Pre-diabetes">>]
    ELSE IF Ge(glucose, 900) THEN
        [score |-> 20,
         factors |-> <<"Borderline glucose levels (90-99 mg/dL)">>]
    ELSE
        [score |-> 10, factors |-> <<>>]

\* Stage 1
glucoseScreening(glucose) ==
    IF Ge(glucose, 2000) THEN
        [score |-> 95,
         factors |-> <<"Severely elevated glucose (>=200 mg/dL) - Immediate diabetes indicator">>]
    ELSE IF Ge(glucose, 1260) THEN
        [score |-> 80,
         factors |-> <<"Fasting glucose >=126 mg/dL - Diabetes threshold">>]
    ELSE IF Ge(glucose, 1000) THEN
        [score |-> 40,
         factors |-> <<"Impaired fasting glucose (100-125 mg/dL) - Pre-diabetes">>]
    ELSE IF Ge(glucose, 900) THEN
        [score |-> 20,
         factors |-> <<"Borderline glucose levels (90-99 mg/dL)">>]
    ELSE
        [score |-> 10, factors |-> <<>>]

\* Stage 2, BMI component
metabolicBmi(bmi) ==
    IF Ge(bmi, 350) THEN
        [score |-> 40, factors |-> <<"Severe obesity (BMI >=35) - High metabolic risk">>]
    ELSE IF Ge(bmi, 300) THEN
        [score |-> 30, factors |-> <<"Obesity (BMI 30-34.9) - Increased insulin resistance">>]
    ELSE IF Ge(bmi, 250) THEN
        [score |-> 20, factors |-> <<"Overweight (BMI 25-29.9) - Moderate risk">>]
    ELSE
        [score |-> 0, factors |-> <<>>]

\* Stage 2, blood pressure component
metabolicBloodPressure(bloodPressure) ==
    IF Ge(bloodPressure, 900) THEN
        [score |-> 25, factors |-> <<"Hypertension (>=90 mmHg) - Metabolic syndrome indicator">>]
    ELSE IF Ge(bloodPressure, 850) THEN
        [score |-> 15, factors |-> <<"High-normal blood pressure (85-89 mmHg)">>]
    ELSE
        [score |-> 0, factors |-> <<>>]

\* Stage 2, insulin component
metabolicInsulin(insulin) ==
    IF Gt(insulin, 250) THEN
        [score |-> 30, factors |-> <<"Hyperinsulinemia (>25 uU/mL) - Insulin resistance">>]
    ELSE IF Lt(insulin, 20) THEN
        [score |-> 35, factors |-> <<"Very low insulin (<2 uU/mL) - Possible beta-cell dysfunction">>]
    ELSE IF Gt(insulin, 150) THEN
        [score |-> 15, factors |-> <<"Elevated insulin levels (>15 uU/mL)">>]
    ELSE
        [score |-> 0, factors |-> <<>>]

\* (mutant) the insulin factor pushed first
metabolicAssessmentInsulinFirst(bmi, bloodPressure, insulin) ==
    LET b == metabolicBmi(bmi)
        p == metabolicBloodPressure(bloodPressure)
        i == metabolicInsulin(insulin)
    IN  [score |-> Min(b.score + p.score + i.score, 100),
         factors |-> i.factors \o b.factors \o p.factors]

\* Stage 2
metabolicAssessment(bmi, bloodPressure, insulin) ==
    LET b == metabolicBmi(bmi)
        p == metabolicBloodPressure(bloodPressure)
        i == metabolicInsulin(insulin)
    IN  [score |-> Min(b.score + p.score + i.score, 100),
         factors |-> b.factors \o p.factors \o i.factors]

\* Stage 3, age ladder
demographicAge(age) ==
    IF Ge(age, 650) THEN
        [score |-> 30, factors |-> <<"Advanced age (>=65) - Significantly increased risk">>]
    ELSE IF Ge(age, 450) THEN
        [score |-> 25, factors |-> <<"Middle age (45-64) - Increased diabetes risk">>]
    ELSE IF Ge(age, 350) THEN
        [score |-> 15, factors |-> <<"Age 35-44 - Moderate risk increase">>]
    ELSE
        [score |-> 0, factors |-> <<>>]

\* (mutant) gender compared as written, without toLowerCase
demographicGenderCaseSensitive(age, gender, bmi) ==
    IF gender = GenderMale THEN
        IF Gt(bmi, 270) THEN
            [score |-> 10,
             factors |-> <<"Male with elevated BMI - Higher visceral adiposity risk">>]
        ELSE [score |-> 0, factors |-> <<>>]
    ELSE IF gender = GenderFemale THEN
        IF Gt(age, 350) /\ Gt(bmi, 250) THEN
            [score |-> 8,
             factors |-> <<"Female with age and weight factors - Post-reproductive risk">>]
        ELSE [score |-> 0, factors |-> <<>>]
    ELSE [score |-> 0, factors |-> <<>>]

\* Stage 3, gender-specific risk patterns
demographicGender(age, gender, bmi) ==
    IF ToLowerCase(gender) = GenderMale THEN
        IF Gt(bmi, 270) THEN
            [score |-> 10,
             factors |-> <<"Male with elevated BMI - Higher visceral adiposity risk">>]
        ELSE [score |-> 0, factors |-> <<>>]
    ELSE IF ToLowerCase(gender) = GenderFemale THEN
        IF Gt(age, 350) /\ Gt(bmi, 250) THEN
            [score |-> 8,
             factors |-> <<"Female with age and weight factors - Post-reproductive risk">>]
        ELSE [score |-> 0, factors |-> <<>>]
    ELSE [score |-> 0, factors |-> <<>>]

\* Stage 3
demographicRisk(age, gender, bmi) ==
    LET a == demographicAge(age)
        g == demographicGender(age, gender, bmi)
    IN  [score |-> Min(a.score + g.score, 100),
         factors |-> a.factors \o g.factors]

\* (mutant) the weights of stage 2 and stage 3 exchanged
ensembleScoreSwapped(stage1, stage2, stage3) == 5 * stage1 + 2 * stage2 + 3 * stage3

\* Stage 4: weighted ensemble (thousandths) of the stage scores (hundredths)
ensembleScore(stage1, stage2, stage3) == 5 * stage1 + 3 * stage2 + 2 * stage3

\* Sum of squared deviations, in units of 10^-6
scoreVariance(stage1, stage2, stage3) ==
    LET e == ensembleScore(stage1, stage2, stage3)
        sq(x) == x * x
    IN  sq(10 * stage1 - e) + sq(10 * stage2 - e) + sq(10 * stage3 - e)

\* (mutant) the penalty added to the base confidence
calibratedConfidencePenaltyAdded(stage1, stage2, stage3) ==
    LET confidencePenalty == Min(scoreVariance(stage1, stage2, stage3), 2000000)
    IN  Max(ensembleScore(stage1, stage2, stage3) * 10000 + confidencePenalty, 1000000)

\* Math.max(baseConfidence - Math.min(scoreVariance * 0.1, 0.2), 0.1), in 10^-7
calibratedConfidence(stage1, stage2, stage3) ==
    LET confidencePenalty == Min(scoreVariance(stage1, stage2, stage3), 2000000)
    IN  Max(ensembleScore(stage1, stage2, stage3) * 10000 - confidencePenalty, 1000000)

\* (mutant) the metabolic threshold of the subtype rule made inclusive
ensembleTypeInclusive(stage1, stage2, stage3) ==
    IF ensembleScore(stage1, stage2, stage3) > 500 THEN
        IF stage3 < 20 /\ stage2 >= 30 THEN "Type 1" ELSE "Type 2"
    ELSE "null"

ensembleType(stage1, stage2, stage3) ==
    IF ensembleScore(stage1, stage2, stage3) > 500 THEN
        IF stage3 < 20 /\ stage2 > 30 THEN "Type 1" ELSE "Type 2"
    ELSE "null"

ensemblePrediction(stage1, stage2, stage3) ==
    [score |-> ensembleScore(stage1, stage2, stage3),
     confidence |-> calibratedConfidence(stage1, stage2, stage3),
     type |-> ensembleType(stage1, stage2, stage3)]

\* (mutant) the factors exposed whatever the classification
exposedRiskFactorsAlways(score, allRiskFactors) == allRiskFactors

\* riskFactors of the PredictionResult
exposedRiskFactors(score, allRiskFactors) ==
    IF score > 500 THEN allRiskFactors ELSE <<>>

\* (mutant) the classification taken from the calibrated confidence
predictOnConfidence(metrics) ==
    LET stage1Result == glucoseScreening(metrics.glucose)
        stage2Result == metabolicAssessment(metrics.bmi, metrics.bloodPressure, metrics.insulin)
        stage3Result == demographicRisk(metrics.age, metrics.gender, metrics.bmi)
        ensembleResult == ensemblePrediction(stage1Result.score, stage2Result.score,
                                             stage3Result.score)
        allRiskFactors == stage1Result.factors \o stage2Result.factors \o stage3Result.factors
    IN  [isDiabetic |-> ensembleResult.confidence > 5000000,
         confidence |-> ensembleResult.confidence,
         diabetesType |-> ensembleResult.type,
         riskFactors |-> exposedRiskFactors(ensembleResult.score, allRiskFactors),
         modelStages |-> [stage1_glucose_screening |-> stage1Result.score,
                          stage2_metabolic_assessment |-> stage2Result.score,
                          stage3_demographic_risk |-> stage3Result.score,
                          stage4_ensemble_prediction |-> ensembleResult.score]]

\* (mutant) the demographic factors collected first
predictDemographicFirst(metrics) ==
    LET stage1Result == glucoseScreening(metrics.glucose)
        stage2Result == metabolicAssessment(metrics.bmi, metrics.bloodPressure, metrics.insulin)
        stage3Result == demographicRisk(metrics.age, metrics.gender, metrics.bmi)
        ensembleResult == ensemblePrediction(stage1Result.score, stage2Result.score,
                                             stage3Result.score)
        allRiskFactors == stage3Result.factors \o stage1Result.factors \o stage2Result.factors
    IN  [isDiabetic |-> ensembleResult.score > 500,
         confidence |-> ensembleResult.confidence,
         diabetesType |-> ensembleResult.type,
         riskFactors |-> exposedRiskFactors(ensembleResult.score, allRiskFactors),
         modelStages |-> [stage1_glucose_screening |-> stage1Result.score,
                          stage2_metabolic_assessment |-> stage2Result.score,
                          stage3_demographic_risk |-> stage3Result.score,
                          stage4_ensemble_prediction |-> ensembleResult.score]]

\* Main prediction pipeline
predict(metrics) ==
    LET stage1Result == glucoseScreening(metrics.glucose)
        stage2Result == metabolicAssessment(metrics.bmi, metrics.bloodPressure, metrics.insulin)
        stage3Result == demographicRisk(metrics.age, metrics.gender, metrics.bmi)
        ensembleResult == ensemblePrediction(stage1Result.score, stage2Result.score,
                                             stage3Result.score)
        allRiskFactors == stage1Result.factors \o stage2Result.factors \o stage3Result.factors
    IN  [isDiabetic |-> ensembleResult.score > 500,
         confidence |-> ensembleResult.confidence,
         diabetesType |-> ensembleResult.type,
         riskFactors |-> exposedRiskFactors(ensembleResult.score, allRiskFactors),
         modelStages |-> [stage1_glucose_screening |-> stage1Result.score,
                          stage2_metabolic_assessment |-> stage2Result.score,
                          stage3_demographic_risk |-> stage3Result.score,
                          stage4_ensemble_prediction |-> ensembleResult.score]]

----------------------------------------------------------------------------
(* parseFloat: optional sign, decimal digits, optional fraction.  The result *)
(* is in tenths; the strings of the model carry at most one fraction digit,  *)
(* no white space and no exponent.                                           *)

DigitChars == <<"0","1","2","3","4","5","6","7","8","9">>

IsDigit(c) == \E i \in DOMAIN DigitChars : DigitChars[i] = c

DigitVal(c) == (CHOOSE i \in DOMAIN DigitChars : DigitChars[i] = c) - 1

\* number of digit characters of s from position i on
RECURSIVE DigitRun(_, _)
DigitRun(s, i) ==
    IF i <= Len(s) /\ IsDigit(s[i]) THEN 1 + DigitRun(s, i + 1) ELSE 0

\* value of the n digits of s from position i on
RECURSIVE DigitsValue(_, _, _)
DigitsValue(s, i, n) ==
    IF n = 0 THEN 0
    ELSE 10 * DigitsValue(s, i, n - 1) + DigitVal(s[i + n - 1])

ParseFloat(s) ==
    LET signed == Len(s) >= 1 /\ s[1] \in {"-", "+"}
        first == IF signed THEN 2 ELSE 1
        nInt == DigitRun(s, first)
        dot == first + nInt
        hasDot == dot <= Len(s) /\ s[dot] = "."
        nFrac == IF hasDot THEN DigitRun(s, dot + 1) ELSE 0
        tenths == IF nFrac >= 1 THEN DigitVal(s[dot + 1]) ELSE 0
        magnitude == 10 * DigitsValue(s, first, nInt) + tenths
    IN  IF nInt = 0 /\ nFrac = 0 THEN NaN
        ELSE Num(IF signed /\ s[1] = "-" THEN 0 - magnitude ELSE magnitude)

----------------------------------------------------------------------------
(* Local fallback scorer: predictDiabetes *)

localGlucose(glucose) ==
    IF Ge(glucose, 1260) THEN
        [score |-> 40, factors |-> <<"Elevated fasting glucose level (>=126 mg/dL)">>]
    ELSE IF Ge(glucose, 1000) THEN
        [score |-> 20, factors |-> <<"Pre-diabetic glucose range (100-125 mg/dL)">>]
    ELSE [score |-> 0, factors |-> <<>>]

localBmi(bmi) ==
    IF Ge(bmi, 300) THEN [score |-> 25, factors |-> <<"Obesity (BMI >=30)">>]
    ELSE IF Ge(bmi, 250) THEN [score |-> 15, factors |-> <<"Overweight (BMI 25-29.9)">>]
    ELSE [score |-> 0, factors |-> <<>>]

localAge(age) ==
    IF Ge(age, 450) THEN [score |-> 15, factors |-> <<"Age >=45 years">>]
    ELSE IF Ge(age, 350) THEN [score |-> 10, factors |-> <<>>]
    ELSE [score |-> 0, factors |-> <<>>]

localBloodPressure(bloodPressure) ==
    IF Ge(bloodPressure, 900) THEN
        [score |-> 10, factors |-> <<"High diastolic blood pressure (>=90 mmHg)">>]
    ELSE IF Ge(bloodPressure, 800) THEN [score |-> 5, factors |-> <<>>]
    ELSE [score |-> 0, factors |-> <<>>]

localInsulin(insulin) ==
    IF Gt(insulin, 250) \/ Lt(insulin, 20) THEN
        [score |-> 10, factors |-> <<"Abnormal insulin levels">>]
    ELSE [score |-> 0, factors |-> <<>>]

localGender(gender, age, bmi) ==
    IF gender = GenderMale /\ Gt(bmi, 280) THEN
        [score |-> 5, factors |-> <<"Male gender with elevated BMI">>]
    ELSE IF gender = GenderFemale /\ Gt(age, 350) /\ Gt(bmi, 250) THEN
        [score |-> 3, factors |-> <<"Female gender with age and weight factors">>]
    ELSE [score |-> 0, factors |-> <<>>]

\* (mutant) the glucose bound of the combined pattern made inclusive
combinedRiskPatternInclusive(glucose, bmi, age) ==
    Ge(glucose, 1400) /\ Gt(bmi, 250) /\ Gt(age, 400)

combinedRiskPattern(glucose, bmi, age) ==
    Gt(glucose, 1400) /\ Gt(bmi, 250) /\ Gt(age, 400)

\* riskScore after Math.min(riskScore, 1), in hundredths, with the factors pushed
localRisk(metrics) ==
    LET age == ParseFloat(metrics.age)
        gender == ToLowerCase(metrics.gender)
        glucose == ParseFloat(metrics.glucose)
        bloodPressure == ParseFloat(metrics.bloodPressure)
        bmi == ParseFloat(metrics.bmi)
        insulin == ParseFloat(metrics.insulin)
        g == localGlucose(glucose)
        b == localBmi(bmi)
        a == localAge(age)
        p == localBloodPressure(bloodPressure)
        i == localInsulin(insulin)
        s == localGender(gender, age, bmi)
        k == IF combinedRiskPattern(glucose, bmi, age) THEN 10 ELSE 0
    IN  [score |-> Min(g.score + b.score + a.score + p.score + i.score + s.score + k, 100),
         factors |-> g.factors \o b.factors \o a.factors \o p.factors \o i.factors
                     \o s.factors]

\* diabetesType as decided at lines 89-96, before the jitter is drawn
localType(metrics, riskScore) ==
    IF riskScore > 50 THEN
        IF Lt(ParseFloat(metrics.age), 300) /\ Lt(ParseFloat(metrics.insulin), 100)
        THEN "Type 1" ELSE "Type 2"
    ELSE "null"

\* (mutant) a jitter of twice the width
JitterWide(random) == 2 * random - 1000000

\* Math.random() * 0.1 - 0.05 in units of 10^-7, for random in millionths
Jitter(random) == random - 500000

\* Math.min(riskScore + jitter, 1), in units of 10^-7
localConfidence(riskScore, random) == Min(riskScore * 100000 + Jitter(random), 10000000)

\* (mutant) the floor left out
localReturnedConfidenceNoFloor(confidence) == confidence

\* the confidence field returned: Math.max(confidence, 0.1)
localReturnedConfidence(confidence) == Max(confidence, 1000000)

\* (mutant) the classification taken from the score before the jitter
predictDiabetesOnScore(metrics, random) ==
    LET risk == localRisk(metrics)
        diabetesType == localType(metrics, risk.score)
        confidence == localConfidence(risk.score, random)
        isDiabetic == risk.score > 50
    IN  [isDiabetic |-> isDiabetic,
         confidence |-> localReturnedConfidence(confidence),
         diabetesType |-> IF isDiabetic THEN diabetesType ELSE "null",
         riskFactors |-> IF isDiabetic THEN risk.factors ELSE <<>>]

predictDiabetes(metrics, random) ==
    LET risk == localRisk(metrics)
        diabetesType == localType(metrics, risk.score)
        confidence == localConfidence(risk.score, random)
        isDiabetic == confidence > 5000000
    IN  [isDiabetic |-> isDiabetic,
         confidence |-> localReturnedConfidence(confidence),
         diabetesType |-> IF isDiabetic THEN diabetesType ELSE "null",
         riskFactors |-> IF isDiabetic THEN risk.factors ELSE <<>>]

----------------------------------------------------------------------------
(* Remote predictor: the serve handler.  The body is a JSON object whose     *)
(* fields are absent, numbers or strings; gender, when present, is a string. *)

Undefined == [kind |-> "undefined", v |-> 0, s |-> <<>>]
JsNumber(x) == [kind |-> "number", v |-> x, s |-> <<>>]
JsString(str) == [kind |-> "string", v |-> 0, s |-> str]

\* !x : undefined, 0 and "" are falsy
Falsy(x) ==
    \/ x.kind = "undefined"
    \/ x.kind = "number" /\ x.v = 0
    \/ x.kind = "string" /\ x.s = <<>>

\* parseFloat(x) of a JSON value: a number is formatted and parsed back
ParseFloatValue(x) ==
    IF x.kind = "number" THEN Num(x.v)
    ELSE IF x.kind = "string" THEN ParseFloat(x.s)
    ELSE NaN

\* (mutant) the required-field check without its last operand
MissingRequiredButInsulin(b) ==
    Falsy(b.age) \/ Falsy(b.gender) \/ Falsy(b.glucose) \/ Falsy(b.bloodPressure)
    \/ Falsy(b.bmi)

\* the required-field check (line 220)
MissingRequired(b) ==
    Falsy(b.age) \/ Falsy(b.gender) \/ Falsy(b.glucose) \/ Falsy(b.bloodPressure)
    \/ Falsy(b.bmi) \/ Falsy(b.insulin)

\* Convert string inputs to numbers (lines 225-232); gender is a string here
ConvertMetrics(b) ==
    [age |-> ParseFloatValue(b.age),
     gender |-> b.gender.s,
     glucose |-> ParseFloatValue(b.glucose),
     bloodPressure |-> ParseFloatValue(b.bloodPressure),
     bmi |-> ParseFloatValue(b.bmi),
     insulin |-> ParseFloatValue(b.insulin)]

\* (mutant) the glucose check moved ahead of the age check
RangeErrorGlucoseFirst(m) ==
    IF Lt(m.glucose, 500) \/ Gt(m.glucose, 4000) THEN "Invalid glucose range"
    ELSE IF Lt(m.age, 10) \/ Gt(m.age, 1200) THEN "Invalid age range"
    ELSE IF Lt(m.bloodPressure, 400) \/ Gt(m.bloodPressure, 2000)
        THEN "Invalid blood pressure range"
    ELSE IF Lt(m.bmi, 100) \/ Gt(m.bmi, 600) THEN "Invalid BMI range"
    ELSE IF Lt(m.insulin, 0) \/ Gt(m.insulin, 1000) THEN "Invalid insulin range"
    ELSE ""

\* Validate numeric ranges (lines 235-239): the message thrown, or "" for none
RangeError(m) ==
    IF Lt(m.age, 10) \/ Gt(m.age, 1200) THEN "Invalid age range"
    ELSE IF Lt(m.glucose, 500) \/ Gt(m.glucose, 4000) THEN "Invalid glucose range"
    ELSE IF Lt(m.bloodPressure, 400) \/ Gt(m.bloodPressure, 2000)
        THEN "Invalid blood pressure range"
    ELSE IF Lt(m.bmi, 100) \/ Gt(m.bmi, 600) THEN "Invalid BMI range"
    ELSE IF Lt(m.insulin, 0) \/ Gt(m.insulin, 1000) THEN "Invalid insulin range"
    ELSE ""

\* the message of the Error thrown by the validation of the body, or ""
ValidationError(b) ==
    IF MissingRequired(b) THEN "Missing required health metrics"
    ELSE RangeError(ConvertMetrics(b))

\* the Response of the catch block (lines 252-267)
ErrorResponse(message) ==
    [status |-> 400,
     body |-> [error |-> message, isDiabetic |-> FALSE, confidence |-> 0,
               diabetesType |-> "null", riskFactors |-> <<>>]]

\* (mutant) the delay drawn finds its way into the body
OkResponseWithDelay(pred, delay) ==
    [status |-> 200, body |-> [pred EXCEPT !.confidence = @ + delay]]

\* the Response of lines 248-250, sent after `delay` ms
OkResponse(pred, delay) == [status |-> 200, body |-> pred]

\* CORS preflight (lines 211-213)
PreflightResponse == [status |-> 200, body |-> [empty |-> TRUE]]

AllStages == <<"glucoseScreening", "metabolicAssessment", "demographicRisk",
               "ensemblePrediction">>

----------------------------------------------------------------------------
(* Inputs: one value per side of every threshold the scorers compare with,  *)
(* and the ends of the declared domains.                                    *)

RemoteAges == {10, 350, 360, 450, 650, 1200}
RemoteGenders == {GenderMale, GenderFemale, GenderOther, <<"M","a","l","e">>}
RemoteGlucoses == {500, 900, 1000, 1260, 2000, 4000}
RemoteBloodPressures == {400, 850, 900, 2000}
RemoteBmis == {100, 250, 270, 271, 300, 350, 600}
RemoteInsulins == {0, 20, 150, 151, 250, 251, 1000}

RemoteMetrics ==
    {[age |-> Num(a), gender |-> g, glucose |-> Num(gl), bloodPressure |-> Num(bp),
      bmi |-> Num(b), insulin |-> Num(i)] :
        a \in RemoteAges, g \in RemoteGenders, gl \in RemoteGlucoses,
        bp \in RemoteBloodPressures, b \in RemoteBmis, i \in RemoteInsulins}

\* worked examples: glucose 210, bmi 22, bloodPressure 70, age 50, insulin 10, male
ScenarioA ==
    [age |-> Num(500), gender |-> GenderMale, glucose |-> Num(2100),
     bloodPressure |-> Num(700), bmi |-> Num(220), insulin |-> Num(100)]

\* glucose 85, bmi 21, bloodPressure 70, age 25, insulin 10, female
ScenarioB ==
    [age |-> Num(250), gender |-> GenderFemale, glucose |-> Num(850),
     bloodPressure |-> Num(700), bmi |-> Num(210), insulin |-> Num(100)]

\* glucose 150, bmi 32, bloodPressure 92, insulin 30, age 50, male
ScenarioC ==
    [age |-> Num(500), gender |-> GenderMale, glucose |-> Num(1500),
     bloodPressure |-> Num(920), bmi |-> Num(320), insulin |-> Num(300)]

Scenarios == {ScenarioA, ScenarioB, ScenarioC}

LocalAges == {<<"1">>, <<"3","0">>, <<"3","5">>, <<"3","6">>, <<"4","1">>, <<"4","5">>,
              <<"1","2","0">>}
LocalGenders == {GenderMale, GenderFemale, GenderOther}
LocalGlucoses == {<<"5","0">>, <<"1","0","0">>, <<"1","2","6">>, <<"1","4","0">>,
                  <<"1","4","1">>, <<"3","0","0">>}
LocalBloodPressures == {<<"4","0">>, <<"8","0">>, <<"9","0">>, <<"2","0","0">>}
LocalBmis == {<<"1","0">>, <<"2","5">>, <<"2","5",".","1">>, <<"2","8">>,
              <<"2","8",".","1">>, <<"3","0">>, <<"6","0">>}
LocalInsulins == {<<"0">>, <<"2">>, <<"1","0">>, <<"2","5">>, <<"2","5",".","1">>,
                  <<"1","0","0">>}

LocalMetrics ==
    {[age |-> a, gender |-> g, glucose |-> gl, bloodPressure |-> bp, bmi |-> b,
      insulin |-> i] :
        a \in LocalAges, g \in LocalGenders, gl \in LocalGlucoses,
        bp \in LocalBloodPressures, b \in LocalBmis, i \in LocalInsulins}

\* Math.random() lies in [0, 1): samples in millionths
RandomDraws == {0, 1, 200000, 499999, 500000, 500001, 800000, 999999}

\* 1500 + Math.random() * 1000 ms
Delays == {1500, 2000, 2499}

Fields == {"age", "gender", "glucose", "bloodPressure", "bmi", "insulin"}

\* a request every field of which is valid
BaseBody ==
    [age |-> JsString(<<"5","0">>), gender |-> JsString(GenderMale),
     glucose |-> JsString(<<"1","5","0">>), bloodPressure |-> JsString(<<"9","2">>),
     bmi |-> JsString(<<"3","2">>), insulin |-> JsString(<<"3","0">>)]

\* what a field of a request may hold instead: absent, empty, zero, the ends of
\* its domain, a value outside it, a string that is not a number
FieldValues(f) ==
    IF f = "gender" THEN
        {Undefined, JsString(<<>>), JsString(GenderFemale), JsString(<<"M","a","l","e">>)}
    ELSE
        {Undefined, JsString(<<>>), JsNumber(0), JsString(<<"0">>), JsString(<<"a","b","c">>)}
        \cup (IF f = "age" THEN {JsNumber(10), JsNumber(1200), JsNumber(1500),
                                 JsString(<<"1","2","0">>), JsString(<<"1","2","1">>)}
              ELSE IF f = "glucose" THEN {JsNumber(500), JsNumber(4000), JsNumber(4001),
                                          JsString(<<"4","0","0">>), JsString(<<"4","9">>)}
              ELSE IF f = "bloodPressure" THEN {JsNumber(400), JsNumber(2000), JsNumber(2001),
                                                JsString(<<"4","0">>), JsString(<<"3","9">>)}
              ELSE IF f = "bmi" THEN {JsNumber(100), JsNumber(600), JsNumber(601),
                                      JsString(<<"6","0">>), JsString(<<"9",".","9">>)}
              ELSE {JsNumber(1000), JsNumber(1001), JsString(<<"1","0","0">>),
                    JsString(<<"1","0","1">>), JsString(<<"-","1">>)})

\* at most this many fields of a request differ from BaseBody
MaxDeviating == 2

\* the handler is run this many times on the same body
MaxRuns == 2

AllFieldValues == UNION {FieldValues(f) : f \in Fields}

BodiesDeviatingIn(D) ==
    {[f \in Fields |-> IF f \in D THEN ch[f] ELSE BaseBody[f]] :
        ch \in {c \in [D -> AllFieldValues] : \A f \in D : c[f] \in FieldValues(f)}}

Bodies ==
    UNION {BodiesDeviatingIn(D) : D \in {E \in SUBSET Fields : Cardinality(E) <= MaxDeviating}}

NoMetrics == [none |-> TRUE]

----------------------------------------------------------------------------
(* Specification of the remote pipeline: predict applied to valid metrics *)

RemoteIdle == wm = NoMetrics /\ wresult = NoResult
LocalIdle == lm = NoMetrics /\ lrandom = 0 /\ lresult = NoResult
ServeIdle ==
    /\ method = "POST" /\ body = BaseBody /\ hpc = "idle" /\ hmetrics = NoMetrics
    /\ stagesInvoked = <<>> /\ hdelay = 0 /\ prediction = NoResult
    /\ response = NoResult /\ served = <<>>
OrchIdle ==
    /\ om = NoMetrics /\ opc = "idle" /\ invokeCount = 0 /\ invokeResult = NoResult
    /\ timerMs = 0 /\ fallbackCalls = <<>> /\ osettle = "idle" /\ oresult = NoResult
\* the page as mounted (useState initial values, lines 32-34), nothing in flight
PageIdle ==
    /\ currentStep = "form" /\ diagnosisResult = NoResult /\ isLoading = FALSE
    /\ inFlight = 0

InitRemote ==
    /\ wm \in RemoteMetrics \cup Scenarios
    /\ wresult = NoResult
    /\ LocalIdle /\ ServeIdle /\ OrchIdle /\ PageIdle

RunPredict ==
    /\ wm # NoMetrics
    /\ wresult = NoResult
    /\ wresult' = predict(wm)
    /\ UNCHANGED <<wm, localVars, serveVars, orchVars, pageVars>>

NextRemote == RunPredict

SpecRemote == InitRemote /\ [][NextRemote]_vars

----------------------------------------------------------------------------
(* Specification of the local fallback: predictDiabetes with a random draw *)

InitLocal ==
    /\ lm \in LocalMetrics
    /\ lrandom = 0
    /\ lresult = NoResult
    /\ RemoteIdle /\ ServeIdle /\ OrchIdle /\ PageIdle

RunPredictDiabetes ==
    /\ lm # NoMetrics
    /\ lresult = NoResult
    /\ \E r \in RandomDraws :
        /\ lrandom' = r
        /\ lresult' = predictDiabetes(lm, r)
    /\ UNCHANGED <<lm, remoteVars, serveVars, orchVars, pageVars>>

NextLocal == RunPredictDiabetes

SpecLocal == InitLocal /\ [][NextLocal]_vars

----------------------------------------------------------------------------
(* Specification of the serve handler *)

InitServe ==
    /\ \/ method = "POST" /\ body \in Bodies
       \/ method = "OPTIONS" /\ body = BaseBody
    /\ hpc = "received"
    /\ hmetrics = NoMetrics
    /\ stagesInvoked = <<>>
    /\ hdelay = 0
    /\ prediction = NoResult
    /\ response = NoResult
    /\ served = <<>>
    /\ RemoteIdle /\ LocalIdle /\ OrchIdle /\ PageIdle

\* OPTIONS: answered at once
Preflight ==
    /\ hpc = "received" /\ method = "OPTIONS"
    /\ response' = PreflightResponse
    /\ hpc' = "done"
    /\ UNCHANGED <<method, body, hmetrics, stagesInvoked, hdelay, prediction, served,
                   remoteVars, localVars, orchVars, pageVars>>

\* the body fails validation: the Error is thrown and caught, 400 is returned
RejectRequest ==
    /\ hpc = "received" /\ method = "POST"
    /\ ValidationError(body) # ""
    /\ hmetrics' = IF MissingRequired(body) THEN NoMetrics ELSE ConvertMetrics(body)
    /\ response' = ErrorResponse(ValidationError(body))
    /\ hpc' = "done"
    /\ UNCHANGED <<method, body, stagesInvoked, hdelay, prediction, served,
                   remoteVars, localVars, orchVars, pageVars>>

\* the body passes validation: the model runs and the delay timer is set
AcceptRequest ==
    /\ hpc = "received" /\ method = "POST"
    /\ ValidationError(body) = ""
    /\ hmetrics' = ConvertMetrics(body)
    /\ prediction' = predict(ConvertMetrics(body))
    /\ stagesInvoked' = AllStages
    /\ \E d \in Delays : hdelay' = d
    /\ hpc' = "delay"
    /\ UNCHANGED <<method, body, response, served, remoteVars, localVars, orchVars, pageVars>>

\* the delay has elapsed: the prediction is returned
DelayElapsed ==
    /\ hpc = "delay"
    /\ response' = OkResponse(prediction, hdelay)
    /\ hpc' = "done"
    /\ UNCHANGED <<method, body, hmetrics, stagesInvoked, hdelay, prediction, served,
                   remoteVars, localVars, orchVars, pageVars>>

\* the same request is sent again
SameRequestAgain ==
    /\ hpc = "done"
    /\ Len(served) + 1 < MaxRuns
    /\ served' = Append(served, [response |-> response, delay |-> hdelay])
    /\ hpc' = "received"
    /\ hmetrics' = NoMetrics
    /\ stagesInvoked' = <<>>
    /\ hdelay' = 0
    /\ prediction' = NoResult
    /\ response' = NoResult
    /\ UNCHANGED <<method, body, remoteVars, localVars, orchVars, pageVars>>

NextServe ==
    \/ Preflight
    \/ RejectRequest
    \/ AcceptRequest
    \/ DelayElapsed
    \/ SameRequestAgain

SpecServe == InitServe /\ [][NextServe]_vars

----------------------------------------------------------------------------
(* Prediction orchestrator: getPredictionAsync *)

\* the body supabase.functions.invoke sends: the metrics, every field a string
FormBody(metrics) == [f \in Fields |-> JsString(metrics[f])]

\* what the serve handler answers to a body (its delay does not reach the
\* answer); the metrics are converted once (lines 225-232) and predict is
\* called on the converted record
ServeResponse(b) ==
    IF ValidationError(b) # "" THEN ErrorResponse(ValidationError(b))
    ELSE CHOOSE r \in {OkResponse(predict(m), 0) : m \in {ConvertMetrics(b)}} : TRUE

\* { data, error } as resolved by invoke, or the exception it threw
InvokeResolved(data, error) ==
    [thrown |-> FALSE, dataIsNull |-> FALSE, data |-> data, error |-> error]
InvokeFailed(error) ==
    [thrown |-> FALSE, dataIsNull |-> TRUE, data |-> <<>>, error |-> error]
InvokeThrew == [thrown |-> TRUE, dataIsNull |-> TRUE, data |-> <<>>, error |-> "null"]

\* the reply of the edge function as the client library reports it: a 2xx body
\* as data, any other status as an error
FunctionReply(metrics) ==
    LET r == ServeResponse(FormBody(metrics))
    IN  IF r.status = 200 THEN InvokeResolved(r.body, "null")
        ELSE InvokeFailed("FunctionsHttpError")

\* a 2xx reply that is not a prediction
MalformedReplies ==
    {InvokeFailed("null"),
     InvokeResolved(<<>>, "null"),
     InvokeResolved([isDiabetic |-> TRUE, confidence |-> 9000000], "null")}

InvokeOutcomes(metrics) ==
    {FunctionReply(metrics), InvokeFailed("FunctionsFetchError"), InvokeThrew}
    \cup MalformedReplies

ResultKeys == {"isDiabetic", "confidence", "diabetesType", "riskFactors"}

\* (mutant) the reply is returned as it came
TransformResponseWhole(data) == data

\* lines 134-139: a field the data lacks is undefined in the result (here: absent)
TransformResponse(data) == [k \in (DOMAIN data \cap ResultKeys) |-> data[k]]

\* (mutant) the await of invoke outside the try block: its exception escapes
AfterInvokeUncaught(res) ==
    IF res.thrown THEN "reject"
    ELSE IF res.error # "null" THEN "fallback"
    ELSE IF res.dataIsNull THEN "fallback"
    ELSE "return"

\* (mutant) the error value of invoke is not examined
AfterInvokeErrorIgnored(res) ==
    IF res.thrown THEN "fallback"
    ELSE IF res.dataIsNull /\ res.error = "null" THEN "fallback"
    ELSE "return"

\* where control goes once invoke has settled (lines 117-149):
\* "fallback" (line 124 or the catch block), "return" (line 134)
AfterInvoke(res) ==
    IF res.thrown THEN "fallback"               \* caught at line 141
    ELSE IF res.error # "null" THEN "fallback"  \* line 121
    ELSE IF res.dataIsNull THEN "fallback"      \* TypeError at line 135, caught
    ELSE "return"

\* the delay of the fallback timer (lines 127, 147)
FallbackDelay == 1000

\* metrics the form can submit; it admits an insulin of up to 300
OrchAges == {<<"3","0">>, <<"4","5">>}
OrchGlucoses == {<<"5","0">>, <<"1","2","6">>, <<"3","0","0">>}
OrchBmis == {<<"1","0">>, <<"3","0">>}
OrchInsulins == {<<"0">>, <<"1","0">>, <<"1","5","0">>}

OrchMetrics ==
    {[age |-> a, gender |-> g, glucose |-> gl, bloodPressure |-> <<"8","0">>, bmi |-> b,
      insulin |-> i] :
        a \in OrchAges, g \in LocalGenders, gl \in OrchGlucoses, b \in OrchBmis,
        i \in OrchInsulins}

\* min and max attributes of the form's number inputs, in tenths
FormMin(f) ==
    CASE f = "age" -> 10
      [] f = "glucose" -> 500
      [] f = "bloodPressure" -> 400
      [] f = "bmi" -> 100
      [] f = "insulin" -> 0

FormMax(f) ==
    CASE f = "age" -> 1200
      [] f = "glucose" -> 3000
      [] f = "bloodPressure" -> 1200
      [] f = "bmi" -> 600
      [] f = "insulin" -> 3000

\* step of the number inputs, in tenths: 0.1 for bmi, the default 1 elsewhere
FormStep(f) == IF f = "bmi" THEN 1 ELSE 10

\* the submit button is enabled and the browser's constraint validation lets
\* the form data through to onSubmit
FormAdmits(formData) ==
    /\ \A f \in Fields : formData[f] # <<>>
    /\ formData.gender \in {GenderMale, GenderFemale, GenderOther}
    /\ \A f \in Fields \ {"gender"} :
        LET x == ParseFloat(formData[f]) IN
            /\ ~x.nan
            /\ x.v >= FormMin(f)
            /\ x.v <= FormMax(f)
            /\ (x.v - FormMin(f)) % FormStep(f) = 0

Init ==
    /\ om \in {m \in OrchMetrics : FormAdmits(m)}
    /\ opc = "start"
    /\ invokeCount = 0
    /\ invokeResult = NoResult
    /\ timerMs = 0
    /\ fallbackCalls = <<>>
    /\ osettle = "pending"
    /\ oresult = NoResult
    /\ RemoteIdle /\ LocalIdle /\ ServeIdle /\ PageIdle

\* (mutant) a second invoke call is issued
ImportResolvedCallsTwice ==
    /\ opc = "start"
    /\ invokeCount' = invokeCount + 2
    /\ opc' = "awaiting"
    /\ UNCHANGED <<om, invokeResult, timerMs, fallbackCalls, osettle, oresult,
                   remoteVars, localVars, serveVars, pageVars>>

\* the client module is loaded and invoke is called
ImportResolved ==
    /\ opc = "start"
    /\ invokeCount' = invokeCount + 1
    /\ opc' = "awaiting"
    /\ UNCHANGED <<om, invokeResult, timerMs, fallbackCalls, osettle, oresult,
                   remoteVars, localVars, serveVars, pageVars>>

\* loading the client module throws: the catch block sets the fallback timer
ImportRejected ==
    /\ opc = "start"
    /\ timerMs' = FallbackDelay
    /\ opc' = "timer"
    /\ UNCHANGED <<om, invokeCount, invokeResult, fallbackCalls, osettle, oresult,
                   remoteVars, localVars, serveVars, pageVars>>

\* the invoke call settles and the function runs on to its return
InvokeSettled ==
    /\ opc = "awaiting"
    /\ \E res \in InvokeOutcomes(om) :
        /\ invokeResult' = res
        /\ CASE AfterInvoke(res) = "fallback" ->
                    /\ timerMs' = FallbackDelay
                    /\ opc' = "timer"
                    /\ UNCHANGED <<osettle, oresult>>
             [] AfterInvoke(res) = "return" ->
                    /\ oresult' = TransformResponse(res.data)
                    /\ osettle' = "resolved"
                    /\ opc' = "done"
                    /\ UNCHANGED timerMs
             [] OTHER ->
                    /\ osettle' = "rejected"
                    /\ opc' = "done"
                    /\ UNCHANGED <<timerMs, oresult>>
    /\ UNCHANGED <<om, invokeCount, fallbackCalls, remoteVars, localVars, serveVars, pageVars>>

\* (mutant) the timer callback never resolves the promise
FallbackTimerLost ==
    /\ opc = "timer"
    /\ opc' = "lost"
    /\ UNCHANGED <<om, invokeCount, invokeResult, timerMs, fallbackCalls, osettle,
                   oresult, remoteVars, localVars, serveVars, pageVars>>

\* the fallback timer fires: the promise resolves with the local prediction
FallbackTimerFires ==
    /\ opc = "timer"
    /\ \E r \in RandomDraws : oresult' = predictDiabetes(om, r)
    /\ fallbackCalls' = Append(fallbackCalls, om)
    /\ osettle' = "resolved"
    /\ opc' = "done"
    /\ UNCHANGED <<om, invokeCount, invokeResult, timerMs,
                   remoteVars, localVars, serveVars, pageVars>>

Next ==
    \/ ImportResolved
    \/ ImportRejected
    \/ InvokeSettled
    \/ FallbackTimerFires

Spec == Init /\ [][Next]_vars

\* Calls checked for termination: whether the promise resolves does not depend
\* on the metrics beyond the remote accepting them (insulin 0 or 10) or
\* rejecting them (insulin 150)
FairMetrics ==
    {m \in OrchMetrics : /\ m.age = <<"4","5">>
                         /\ m.gender = GenderMale
                         /\ m.bmi = <<"3","0">>}

InitFair == Init /\ om \in FairMetrics

\* the runtime settles every await and fires every timer it has scheduled: the
\* dynamic import, the invoke call and the fallback timer each eventually happen
FairSpec ==
    /\ InitFair
    /\ [][Next]_vars
    /\ WF_vars(ImportResolved \/ ImportRejected)
    /\ WF_vars(InvokeSettled)
    /\ WF_vars(FallbackTimerFires)

----------------------------------------------------------------------------
(* Specification of both scorers, each applied to metrics within the domains *)

InitScorers == InitRemote \/ InitLocal

NextScorers == RunPredict \/ RunPredictDiabetes

SpecScorers == InitScorers /\ [][NextScorers]_vars

----------------------------------------------------------------------------
(* Properties *)

Abs(x) == IF x < 0 THEN 0 - x ELSE x

\* C1: whatever the remote invocation does (a reply, an error value, an
\* exception while loading the client or invoking), the promise returned by
\* getPredictionAsync is never rejected, and once the function has run to its
\* end the promise is resolved with a value.
NeverRejects ==
    /\ osettle # "rejected"
    /\ opc = "done" => osettle = "resolved" /\ oresult # NoResult

\* the invoke call threw and the promise resolved all the same
NeverRejectsWitness ==
    /\ osettle = "resolved"
    /\ invokeResult = InvokeThrew
    /\ fallbackCalls = <<om>>

WellFormedResult(r) ==
    /\ DOMAIN r = ResultKeys
    /\ r.isDiabetic \in BOOLEAN
    /\ r.confidence \in 1000000..10000000
    /\ r.diabetesType \in {"Type 1", "Type 2", "null"}
    /\ DOMAIN r.riskFactors = 1..Len(r.riskFactors)

\* C2: when invoke resolves without an error but with a malformed reply (data
\* null, or an object lacking result fields), the promise resolves with the
\* local fallback's result on the same metrics, a well-formed DiagnosisResult.
MalformedReplyFallsBack ==
    (osettle = "resolved" /\ invokeResult \in MalformedReplies)
        => (fallbackCalls = <<om>> /\ WellFormedResult(oresult))

\* C3: in the remote pipeline and in the local fallback alike, riskFactors is
\* empty if and only if isDiabetic is false.
RiskFactorsIffDiabetic ==
    /\ wresult # NoResult => (wresult.riskFactors = <<>> <=> ~wresult.isDiabetic)
    /\ lresult # NoResult => (lresult.riskFactors = <<>> <=> ~lresult.isDiabetic)

\* a diabetic result of the local fallback whose pre-jitter score is not above
\* 0.5, with its factors
RiskFactorsIffDiabeticWitness ==
    /\ lresult # NoResult
    /\ lresult.isDiabetic
    /\ localRisk(lm).score <= 50
    /\ Len(lresult.riskFactors) >= 1

\* C4: in the remote pipeline and in the local fallback alike, diabetesType is
\* Type 1 or Type 2 if and only if isDiabetic is true.
TypeIffDiabetic ==
    /\ wresult # NoResult => (wresult.diabetesType # "null" <=> wresult.isDiabetic)
    /\ lresult # NoResult => (lresult.diabetesType # "null" <=> lresult.isDiabetic)

\* C5: each remote stage score lies in [0,1], and the confidence returned by
\* the remote pipeline and by the local fallback lies in [0.1,1].
ScoresInRange ==
    /\ wresult # NoResult =>
        /\ wresult.modelStages.stage1_glucose_screening \in 0..100
        /\ wresult.modelStages.stage2_metabolic_assessment \in 0..100
        /\ wresult.modelStages.stage3_demographic_risk \in 0..100
        /\ wresult.confidence \in 1000000..10000000
    /\ lresult # NoResult => lresult.confidence \in 1000000..10000000

\* the local fallback's floor is what keeps the confidence at 0.1
ScoresInRangeWitness ==
    /\ lresult # NoResult
    /\ localConfidence(localRisk(lm).score, lrandom) < 1000000
    /\ lresult.confidence = 1000000

JitterWithinFiveHundredths ==
    lresult # NoResult =>
        Abs(lresult.confidence - localRisk(lm).score * 100000) <= 500000

\* C7 as amended: the confidence the local fallback returns is within 0.05 of
\* its pre-jitter score whenever that score is at least 0.05; for a score
\* below that (the score 0) the floor makes it exactly 0.1.
JitterWithinFiveHundredthsAboveFloor ==
    lresult # NoResult =>
        LET score == localRisk(lm).score
        IN  /\ score >= 5 => Abs(lresult.confidence - score * 100000) <= 500000
            /\ score < 5 => lresult.confidence = 1000000

\* a score of 0.05 with the lowest jitter: the floor lifts 0 to 0.1
JitterWitness ==
    /\ lresult # NoResult
    /\ localRisk(lm).score = 5
    /\ lrandom = 0
    /\ lresult.confidence = 1000000

----------------------------------------------------------------------------
(* The declared domains (in tenths) and the reading of the error messages *)

NumericFields == {"age", "glucose", "bloodPressure", "bmi", "insulin"}

FieldOrder == <<"age", "gender", "glucose", "bloodPressure", "bmi", "insulin">>

DomainLow(f) ==
    CASE f = "age" -> 10 [] f = "glucose" -> 500 [] f = "bloodPressure" -> 400
      [] f = "bmi" -> 100 [] f = "insulin" -> 0

DomainHigh(f) ==
    CASE f = "age" -> 1200 [] f = "glucose" -> 4000 [] f = "bloodPressure" -> 2000
      [] f = "bmi" -> 600 [] f = "insulin" -> 1000

RangeMessage(f) ==
    CASE f = "age" -> "Invalid age range" [] f = "glucose" -> "Invalid glucose range"
      [] f = "bloodPressure" -> "Invalid blood pressure range"
      [] f = "bmi" -> "Invalid BMI range" [] f = "insulin" -> "Invalid insulin range"

\* the fields an error message names
NamedFields(message) == {f \in NumericFields : RangeMessage(f) = message}

\* the field holds a number, or a string that parses to one
IsNumeric(x) == ~ParseFloatValue(x).nan

InDomain(x, f) ==
    /\ IsNumeric(x)
    /\ ParseFloatValue(x).v >= DomainLow(f)
    /\ ParseFloatValue(x).v <= DomainHigh(f)

OutOfDomain(x, f) == IsNumeric(x) /\ ~InDomain(x, f)

Absent(x) == x.kind = "undefined" \/ (x.kind = "string" /\ x.s = <<>>)

\* field f of the body is as a valid request has it
ValidField(b, f) ==
    IF f = "gender" THEN ~Absent(b[f]) ELSE ~Absent(b[f]) /\ InDomain(b[f], f)

\* field f is missing, not numeric or out of its domain
Offending(b, f) == ~ValidField(b, f)

IndexOf(f) == CHOOSE i \in DOMAIN FieldOrder : FieldOrder[i] = f

\* the first of a non-empty set of fields in the order of FieldOrder
FirstOf(fs) == CHOOSE f \in fs : \A g \in fs : IndexOf(f) <= IndexOf(g)

Answered == hpc = "done" /\ method = "POST"

OutOfDomainNamed ==
    \A f \in NumericFields :
        (/\ Answered
         /\ OutOfDomain(body[f], f)
         /\ \A g \in Fields \ {f} : ValidField(body, g))
        => /\ response.status = 400
           /\ f \in NamedFields(response.body.error)
           /\ response.body.isDiabetic = FALSE
           /\ response.body.confidence = 0
           /\ response.body.diabetesType = "null"
           /\ response.body.riskFactors = <<>>
           /\ stagesInvoked = <<>>

OffendingFields(b) == {f \in Fields : Offending(b, f)}

FalsyFields(b) ==
    {f \in Fields : b[f] \in {Undefined, JsString(<<>>), JsNumber(0)}}

OutOfDomainFields(b) == {f \in NumericFields : OutOfDomain(b[f], f)}

NonNumeric(x) == x.kind = "string" /\ x.s # <<>> /\ ~IsNumeric(x)

\* C11: a request in which a numeric field is present but not numeric is
\* rejected with HTTP 400, and no scoring stage executes on a non-numeric value.
NonNumericRejected ==
    (method = "POST" /\ \E f \in NumericFields : NonNumeric(body[f]))
        => /\ stagesInvoked = <<>>
           /\ hpc = "done" => response.status = 400

\* C12: a request whose six fields are all present with values inside their
\* inclusive domains, given as numbers or as numeric strings, is answered 200
\* with the prediction for those values.
ValidRequestAccepted ==
    (Answered /\ \A f \in Fields : ValidField(body, f))
        => /\ response.status = 200
           /\ response.body = predict(ConvertMetrics(body))

\* C13: the local fallback is only ever invoked on metrics that pass
\* validation, and the remote predictor only ever scores such metrics: every
\* numeric field of a scored record is numeric and inside its declared domain.
InDeclaredDomain(metrics) ==
    \A f \in NumericFields : InDomain(JsString(metrics[f]), f)

OnlyValidatedMetricsScored ==
    /\ \A i \in 1..Len(fallbackCalls) : InDeclaredDomain(fallbackCalls[i])
    /\ (invokeResult \in {InvokeResolved(predict(ConvertMetrics(FormBody(om))), "null")})
            => InDeclaredDomain(om)

\* the invoke call resolved with data and no error
RemoteDelivered ==
    /\ invokeResult # NoResult
    /\ ~invokeResult.thrown
    /\ invokeResult.error = "null"
    /\ ~invokeResult.dataIsNull

FallbackCompleted == fallbackCalls # <<>>

FallbackOnceAfterDelay ==
    /\ [](osettle = "pending" => fallbackCalls = <<>>)
    /\ []((osettle = "resolved" /\ ~RemoteDelivered)
            => timerMs = 1000 /\ fallbackCalls = <<om>>)
    /\ []((osettle = "resolved" /\ RemoteDelivered)
            => timerMs = 0 /\ fallbackCalls = <<>>)
    /\ [][(osettle = "pending" /\ osettle' = "resolved" /\ ~RemoteDelivered')
            => /\ opc = "timer" /\ timerMs = 1000
               /\ \E r \in RandomDraws : oresult' = predictDiabetes(om, r)]_vars

\* the remote rejected the metrics and the fallback ran once, after the delay
FallbackOnceAfterDelayWitness ==
    /\ osettle = "resolved"
    /\ invokeResult = InvokeFailed("FunctionsHttpError")
    /\ timerMs = 1000
    /\ fallbackCalls = <<om>>
    /\ \E r \in RandomDraws : oresult = predictDiabetes(om, r)

\* C16: each invocation performs exactly one outbound call to the remote
\* predictor, whatever its outcome.
ExactlyOneCall == osettle = "resolved" => invokeCount = 1

\* C16, as the code has it: at most one outbound call per invocation, never
\* a second one; exactly one once the client module has loaded, whatever
\* the call's outcome, and none when loading the client module throws.
AtMostOneCall ==
    /\ [](invokeCount \in {0, 1})
    /\ [](opc = "awaiting" => invokeCount = 1)
    /\ [](osettle = "resolved" =>
            IF invokeResult = NoResult THEN invokeCount = 0 ELSE invokeCount = 1)
    /\ [][invokeCount' # invokeCount => opc = "start"]_vars

\* the call failed, the fallback answered, and there was still one call only
AtMostOneCallWitness ==
    /\ osettle = "resolved"
    /\ invokeResult = InvokeFailed("FunctionsFetchError")
    /\ fallbackCalls = <<om>>
    /\ invokeCount = 1

\* the four fields of a DiagnosisResult
DiagnosisFields == {"isDiabetic", "confidence", "diabetesType", "riskFactors"}

\* C17: when the remote call succeeds with a well-formed result, the promise
\* resolves with exactly the remote's isDiabetic, confidence, diabetesType and
\* riskFactors, unchanged, and without the per-stage breakdown.
RemoteResultPassedThrough ==
    (osettle = "resolved" /\ RemoteDelivered /\ DiagnosisFields \subseteq DOMAIN invokeResult.data)
        => /\ DOMAIN oresult = DiagnosisFields
           /\ \A k \in DiagnosisFields : oresult[k] = invokeResult.data[k]
           /\ "modelStages" \notin DOMAIN oresult
           /\ invokeResult = FunctionReply(om) =>
                \A k \in DiagnosisFields :
                    oresult[k] = predict(ConvertMetrics(FormBody(om)))[k]

\* a diabetic remote prediction carrying its stage breakdown was passed on
RemoteResultPassedThroughWitness ==
    /\ osettle = "resolved"
    /\ RemoteDelivered
    /\ "modelStages" \in DOMAIN invokeResult.data
    /\ fallbackCalls = <<>>
    /\ oresult.isDiabetic
    /\ oresult.riskFactors # <<>>

\* the stage scores a prediction exposes, in hundredths
StageG(r) == r.modelStages.stage1_glucose_screening
StageM(r) == r.modelStages.stage2_metabolic_assessment
StageD(r) == r.modelStages.stage3_demographic_risk
StageE(r) == r.modelStages.stage4_ensemble_prediction

\* E = 0.5*g + 0.3*m + 0.2*d, in thousandths
ClaimedE(g, m, d) == (50 * g + 30 * m + 20 * d) \div 10

\* V = (g-E)^2 + (m-E)^2 + (d-E)^2, in units of 10^-6
ClaimedV(g, m, d) ==
    (10 * g - ClaimedE(g, m, d)) * (10 * g - ClaimedE(g, m, d))
    + (10 * m - ClaimedE(g, m, d)) * (10 * m - ClaimedE(g, m, d))
    + (10 * d - ClaimedE(g, m, d)) * (10 * d - ClaimedE(g, m, d))

\* penalty = min(0.1*V, 0.2) and confidence = max(E - penalty, 0.1), in 10^-7
ClaimedPenalty(g, m, d) ==
    IF ClaimedV(g, m, d) <= 2000000 THEN ClaimedV(g, m, d) ELSE 2000000

ClaimedConfidence(g, m, d) ==
    IF ClaimedE(g, m, d) * 10000 - ClaimedPenalty(g, m, d) >= 1000000
    THEN ClaimedE(g, m, d) * 10000 - ClaimedPenalty(g, m, d)
    ELSE 1000000

\* C18: for stage scores g, m, d the combiner yields E = 0.5g + 0.3m + 0.2d,
\* exposed as stage4_ensemble_prediction, and confidence = max(E - min(0.1*V,
\* 0.2), 0.1) with V the sum of squared deviations from E; Scenario C has
\* g = 0.80, m = 0.85, d = 0.35 and E = 0.725.
EnsembleArithmetic ==
    wresult # NoResult =>
        /\ StageG(wresult) = glucoseScreening(wm.glucose).score
        /\ StageM(wresult) = metabolicAssessment(wm.bmi, wm.bloodPressure, wm.insulin).score
        /\ StageD(wresult) = demographicRisk(wm.age, wm.gender, wm.bmi).score
        /\ StageE(wresult) = ClaimedE(StageG(wresult), StageM(wresult), StageD(wresult))
        /\ wresult.confidence =
                ClaimedConfidence(StageG(wresult), StageM(wresult), StageD(wresult))
        /\ wm = ScenarioC =>
                /\ StageG(wresult) = 80 /\ StageM(wresult) = 85 /\ StageD(wresult) = 35
                /\ StageE(wresult) = 725

\* Scenario C scored: E = 0.725, V = 0.161875, confidence = 0.7088125
EnsembleArithmeticWitness ==
    /\ wm = ScenarioC
    /\ wresult # NoResult
    /\ StageE(wresult) = 725
    /\ wresult.confidence = 7088125

\* C19: isDiabetic is true exactly when the ensemble score E is strictly
\* greater than 0.5, whatever the calibrated confidence; Scenario A is
\* diabetic and Scenario B is not.
DiabeticIffScoreAboveHalf ==
    wresult # NoResult =>
        /\ wresult.isDiabetic <=> StageE(wresult) > 500
        /\ wm = ScenarioA => wresult.isDiabetic
        /\ wm = ScenarioB => ~wresult.isDiabetic

\* E is exactly 0.5 (g = 0.40, m = 1.00, d = 0) and the answer is negative
DiabeticIffScoreAboveHalfWitness ==
    /\ wresult # NoResult
    /\ StageE(wresult) = 500
    /\ ~wresult.isDiabetic

\* E is above 0.5, the confidence is not, and the answer is positive
DiabeticBelowHalfConfidence ==
    /\ wresult # NoResult
    /\ wresult.isDiabetic
    /\ wresult.confidence <= 5000000

\* C20: the subtype is Type 1 exactly when the result is diabetic, the
\* demographic score is below 0.2 and the metabolic score is above 0.3 (both
\* strict); any other diabetic result is Type 2, and a non-diabetic result has
\* no subtype.
SubtypeRule ==
    wresult # NoResult =>
        /\ wresult.diabetesType = "Type 1"
            <=> (wresult.isDiabetic /\ StageD(wresult) < 20 /\ StageM(wresult) > 30)
        /\ wresult.diabetesType = "Type 2"
            <=> (wresult.isDiabetic /\ ~(StageD(wresult) < 20 /\ StageM(wresult) > 30))
        /\ wresult.diabetesType = "null" <=> ~wresult.isDiabetic

\* a young patient with a high metabolic score is classified Type 1
SubtypeRuleWitness ==
    /\ wresult # NoResult
    /\ wresult.isDiabetic
    /\ StageD(wresult) < 20
    /\ StageM(wresult) > 30
    /\ wresult.diabetesType = "Type 1"

\* the glucose tiers as intervals of the value in tenths of mg/dL, in hundredths
ClaimedGlucoseScore(x) ==
    CASE x >= 2000 -> 95
      [] x >= 1260 /\ x < 2000 -> 80
      [] x >= 1000 /\ x < 1260 -> 40
      [] x >= 900 /\ x < 1000 -> 20
      [] x < 900 -> 10

\* C21: the glucose stage scores 0.95 for glucose >= 200, 0.80 for 126..200,
\* 0.40 for 100..126, 0.20 for 90..100 and 0.10 below 90, and emits exactly
\* one factor when glucose >= 90 and none below.
GlucoseTiers ==
    wresult # NoResult =>
        /\ StageG(wresult) = ClaimedGlucoseScore(wm.glucose.v)
        /\ glucoseScreening(wm.glucose).score = StageG(wresult)
        /\ Len(glucoseScreening(wm.glucose).factors) = IF wm.glucose.v >= 900 THEN 1 ELSE 0

\* glucose exactly 126 scored 0.80
GlucoseTiersWitness ==
    /\ wresult # NoResult
    /\ wm.glucose = Num(1260)
    /\ StageG(wresult) = 80

\* the metabolic tiers, in hundredths, of values in tenths
ClaimedBmiTier(x) == IF x >= 350 THEN 40 ELSE IF x >= 300 THEN 30 ELSE IF x >= 250 THEN 20 ELSE 0
ClaimedBpTier(x) == IF x >= 900 THEN 25 ELSE IF x >= 850 THEN 15 ELSE 0
ClaimedInsulinTier(x) == IF x > 250 THEN 30 ELSE IF x < 20 THEN 35 ELSE IF x > 150 THEN 15 ELSE 0

\* the input a metabolic factor text speaks of: 1 BMI, 2 blood pressure, 3 insulin
MetabolicFactorInput(text) ==
    CASE text \in {"Severe obesity (BMI >=35) - High metabolic risk",
                   "Obesity (BMI 30-34.9) - Increased insulin resistance",
                   "Overweight (BMI 25-29.9) - Moderate risk"} -> 1
      [] text \in {"Hypertension (>=90 mmHg) - Metabolic syndrome indicator",
                   "High-normal blood pressure (85-89 mmHg)"} -> 2
      [] text \in {"Hyperinsulinemia (>25 uU/mL) - Insulin resistance",
                   "Very low insulin (<2 uU/mL) - Possible beta-cell dysfunction",
                   "Elevated insulin levels (>15 uU/mL)"} -> 3
      [] OTHER -> 0

\* the inputs whose tier is non-zero
MetabolicTriggered(m) ==
    {k \in 1..3 : CASE k = 1 -> ClaimedBmiTier(m.bmi.v) # 0
                    [] k = 2 -> ClaimedBpTier(m.bloodPressure.v) # 0
                    [] k = 3 -> ClaimedInsulinTier(m.insulin.v) # 0}

\* C22: the metabolic score is min(1.0, bmiTier + bpTier + insulinTier) and
\* the stage emits exactly one factor per input whose tier is non-zero, in the
\* order BMI, blood pressure, insulin.
MetabolicTiers ==
    wresult # NoResult =>
        LET stage == metabolicAssessment(wm.bmi, wm.bloodPressure, wm.insulin)
            sum == ClaimedBmiTier(wm.bmi.v) + ClaimedBpTier(wm.bloodPressure.v)
                   + ClaimedInsulinTier(wm.insulin.v)
        IN  /\ StageM(wresult) = IF sum <= 100 THEN sum ELSE 100
            /\ stage.score = StageM(wresult)
            /\ Len(stage.factors) <= 3
            /\ {MetabolicFactorInput(stage.factors[i]) : i \in 1..Len(stage.factors)}
                    = MetabolicTriggered(wm)
            /\ \A i, j \in 1..Len(stage.factors) :
                    i < j => MetabolicFactorInput(stage.factors[i])
                                < MetabolicFactorInput(stage.factors[j])

\* all three inputs at their top tier: 0.40 + 0.25 + 0.35 = 1.00, three factors
MetabolicTiersWitness ==
    /\ wresult # NoResult
    /\ wm.bmi = Num(350) /\ wm.bloodPressure = Num(900) /\ wm.insulin = Num(0)
    /\ StageM(wresult) = 100
    /\ Len(metabolicAssessment(wm.bmi, wm.bloodPressure, wm.insulin).factors) = 3

\* the age ladder, in hundredths, of an age in tenths of a year
ClaimedAgeTier(x) == IF x >= 650 THEN 30 ELSE IF x >= 450 THEN 25 ELSE IF x >= 350 THEN 15 ELSE 0

\* spellings of the two genders that carry an addend
MaleSpellings == {<<"m","a","l","e">>, <<"M","a","l","e">>, <<"M","A","L","E">>}
FemaleSpellings == {<<"f","e","m","a","l","e">>, <<"F","e","m","a","l","e">>}

ClaimedGenderAddend(m) ==
    IF m.gender \in MaleSpellings /\ m.bmi.v > 270 THEN 10
    ELSE IF m.gender \in FemaleSpellings /\ m.age.v > 350 /\ m.bmi.v > 250 THEN 8
    ELSE 0

\* C23: the demographic score is min(1.0, ageTier + genderAddend), with the
\* age ladder 0.30 / 0.25 / 0.15 at 65 / 45 / 35, 0.10 for a male with bmi > 27,
\* 0.08 for a female with age > 35 and bmi > 25, gender compared without regard
\* to case, and no addend for gender other.
DemographicTiers ==
    wresult # NoResult =>
        /\ StageD(wresult) = ClaimedAgeTier(wm.age.v) + ClaimedGenderAddend(wm)
        /\ StageD(wresult) <= 100
        /\ demographicRisk(wm.age, wm.gender, wm.bmi).score = StageD(wresult)
        /\ wm.gender = GenderOther => StageD(wresult) = ClaimedAgeTier(wm.age.v)

\* a female aged exactly 35 with bmi above 25 gets the age tier and no addend
DemographicTiersWitness ==
    /\ wresult # NoResult
    /\ wm.gender = GenderFemale /\ wm.age = Num(350) /\ wm.bmi = Num(300)
    /\ StageD(wresult) = 15

\* gender written 'Male' with bmi above 27 gets the male addend
DemographicCaseInsensitive ==
    /\ wresult # NoResult
    /\ wm.gender = <<"M","a","l","e">> /\ wm.age = Num(450) /\ wm.bmi = Num(271)
    /\ StageD(wresult) = 35

\* the rule a remote factor text belongs to, in rule-evaluation order:
\* 1 glucose, 2 BMI, 3 blood pressure, 4 insulin, 5 age, 6 gender
RemoteFactorRule(text) ==
    CASE text \in {"Severely elevated glucose (>=200 mg/dL) - Immediate diabetes indicator",
                   "Fasting glucose >=126 mg/dL - Diabetes threshold",
                   "Impaired fasting glucose (100-125 mg/dL) - Pre-diabetes",
                   "Borderline glucose levels (90-99 mg/dL)"} -> 1
      [] MetabolicFactorInput(text) # 0 -> 1 + MetabolicFactorInput(text)
      [] text \in {"Advanced age (>=65) - Significantly increased risk",
                   "Middle age (45-64) - Increased diabetes risk",
                   "Age 35-44 - Moderate risk increase"} -> 5
      [] text \in {"Male with elevated BMI - Higher visceral adiposity risk",
                   "Female with age and weight factors - Post-reproductive risk"} -> 6
      [] OTHER -> 0

\* the rules a record triggers
RemoteTriggered(m) ==
    {k \in 1..6 : CASE k = 1 -> m.glucose.v >= 900
                    [] k \in 2..4 -> (k - 1) \in MetabolicTriggered(m)
                    [] k = 5 -> ClaimedAgeTier(m.age.v) # 0
                    [] k = 6 -> ClaimedGenderAddend(m) # 0}

\* C24: for a diabetic result riskFactors is the glucose stage's factors, then
\* the metabolic stage's, then the demographic stage's, each in rule order,
\* none dropped, duplicated or reordered; for a non-diabetic result it is empty.
RiskFactorsInStageOrder ==
    wresult # NoResult =>
        LET fs == wresult.riskFactors IN
        /\ wresult.isDiabetic =>
            /\ fs = glucoseScreening(wm.glucose).factors
                    \o metabolicAssessment(wm.bmi, wm.bloodPressure, wm.insulin).factors
                    \o demographicRisk(wm.age, wm.gender, wm.bmi).factors
            /\ {RemoteFactorRule(fs[i]) : i \in 1..Len(fs)} = RemoteTriggered(wm)
            /\ \A i, j \in 1..Len(fs) :
                    i < j => RemoteFactorRule(fs[i]) < RemoteFactorRule(fs[j])
        /\ ~wresult.isDiabetic => fs = <<>>

\* a diabetic record that triggers a rule of every kind: six factors in order
RiskFactorsInStageOrderWitness ==
    /\ wresult # NoResult
    /\ wresult.isDiabetic
    /\ Len(wresult.riskFactors) = 6
    /\ RemoteFactorRule(wresult.riskFactors[1]) = 1
    /\ RemoteFactorRule(wresult.riskFactors[6]) = 6

\* the rule a local factor text belongs to:
\* 1 glucose, 2 BMI, 3 age, 4 blood pressure, 5 insulin, 6 gender
LocalFactorRule(text) ==
    CASE text \in {"Elevated fasting glucose level (>=126 mg/dL)",
                   "Pre-diabetic glucose range (100-125 mg/dL)"} -> 1
      [] text \in {"Obesity (BMI >=30)", "Overweight (BMI 25-29.9)"} -> 2
      [] text = "Age >=45 years" -> 3
      [] text = "High diastolic blood pressure (>=90 mmHg)" -> 4
      [] text = "Abnormal insulin levels" -> 5
      [] text \in {"Male gender with elevated BMI",
                   "Female gender with age and weight factors"} -> 6
      [] OTHER -> 0

\* the addends of the local score, in hundredths, of values in tenths
ClaimedLocalAddends(gender, glucose, bmi, age, bloodPressure, insulin) ==
    [glucose |-> IF glucose >= 1260 THEN 40 ELSE IF glucose >= 1000 THEN 20 ELSE 0,
     bmi |-> IF bmi >= 300 THEN 25 ELSE IF bmi >= 250 THEN 15 ELSE 0,
     age |-> IF age >= 450 THEN 15 ELSE IF age >= 350 THEN 10 ELSE 0,
     bloodPressure |-> IF bloodPressure >= 900 THEN 10
                       ELSE IF bloodPressure >= 800 THEN 5 ELSE 0,
     insulin |-> IF insulin > 250 \/ insulin < 20 THEN 10 ELSE 0,
     gender |-> IF gender \in MaleSpellings /\ bmi > 280 THEN 5
                ELSE IF gender \in FemaleSpellings /\ age > 350 /\ bmi > 250 THEN 3
                ELSE 0,
     combined |-> IF glucose > 1400 /\ bmi > 250 /\ age > 400 THEN 10 ELSE 0]

ClaimedLocalSum(a) ==
    a.glucose + a.bmi + a.age + a.bloodPressure + a.insulin + a.gender + a.combined

\* the rules with a factor text that the addends show as triggered
ClaimedLocalFactorRules(a, age, bloodPressure) ==
    {k \in 1..6 : CASE k = 1 -> a.glucose # 0
                    [] k = 2 -> a.bmi # 0
                    [] k = 3 -> age >= 450
                    [] k = 4 -> bloodPressure >= 900
                    [] k = 5 -> a.insulin # 0
                    [] k = 6 -> a.gender # 0}

\* C25: the local pre-jitter score is min(1.0, sum of the listed addends), and
\* a factor text is recorded for every triggered rule except the lower age
\* tier, the lower blood-pressure tier and the combined-pattern bonus.
LocalScoreRules ==
    lresult # NoResult =>
        LET a == ClaimedLocalAddends(lm.gender, ParseFloat(lm.glucose).v, ParseFloat(lm.bmi).v,
                                     ParseFloat(lm.age).v, ParseFloat(lm.bloodPressure).v,
                                     ParseFloat(lm.insulin).v)
            claimed == IF ClaimedLocalSum(a) <= 100 THEN ClaimedLocalSum(a) ELSE 100
            risk == localRisk(lm)
            rules == ClaimedLocalFactorRules(a, ParseFloat(lm.age).v,
                                             ParseFloat(lm.bloodPressure).v)
        IN  /\ risk.score = claimed
            /\ lresult.confidence
                    = Max(Min(claimed * 100000 + lrandom - 500000, 10000000), 1000000)
            /\ {LocalFactorRule(risk.factors[i]) : i \in 1..Len(risk.factors)} = rules
            /\ Len(risk.factors) = Cardinality(rules)
            /\ lresult.isDiabetic => lresult.riskFactors = risk.factors

\* every rule triggered: the sum 1.15 is clamped to 1.0, and the six factor
\* texts are returned
LocalScoreRulesWitness ==
    /\ lresult # NoResult
    /\ lm.gender = GenderMale
    /\ lm.glucose = <<"1","4","1">> /\ lm.bmi = <<"3","0">> /\ lm.age = <<"4","5">>
    /\ lm.bloodPressure = <<"9","0">> /\ lm.insulin = <<"0">>
    /\ localRisk(lm).score = 100
    /\ Len(lresult.riskFactors) = 6

\* C26: in the local fallback, whenever the returned confidence exceeds 0.5
\* the diabetesType is Type 1 if age < 30 and insulin < 10 and Type 2
\* otherwise, and whenever it does not the diabetesType is none, for every
\* jitter value.
LocalSubtypeByConfidence ==
    lresult # NoResult =>
        IF lresult.confidence > 5000000
        THEN lresult.diabetesType =
                IF ParseFloat(lm.age).v < 300 /\ ParseFloat(lm.insulin).v < 100
                THEN "Type 1" ELSE "Type 2"
        ELSE lresult.diabetesType = "null"

\* C27: with c = min(score + jitter, 1.0) and the jitter within 0.05 of zero,
\* the local fallback returns isDiabetic = (c > 0.5) and confidence =
\* max(c, 0.1), so isDiabetic holds exactly when the returned confidence
\* exceeds 0.5.
LocalClassifiedOnConfidence ==
    lresult # NoResult =>
        LET jitter == lrandom - 500000
            sum == localRisk(lm).score * 100000 + jitter
            c == IF sum <= 10000000 THEN sum ELSE 10000000
        IN  /\ jitter >= -500000 /\ jitter <= 500000
            /\ lresult.isDiabetic <=> c > 5000000
            /\ lresult.confidence = IF c >= 1000000 THEN c ELSE 1000000
            /\ lresult.isDiabetic <=> lresult.confidence > 5000000

\* the score is 0.5 and the jitter is zero: c = 0.5 and the answer is negative
LocalClassifiedOnConfidenceWitness ==
    /\ lresult # NoResult
    /\ localRisk(lm).score = 50
    /\ lrandom = 500000
    /\ lresult.confidence = 5000000
    /\ ~lresult.isDiabetic

\* C28: in the remote pipeline a result with isDiabetic = true always has
\* confidence > 0.5 and a result with isDiabetic = false always has
\* confidence <= 0.5.
RemoteConfidenceAgrees ==
    wresult # NoResult => (wresult.isDiabetic <=> wresult.confidence > 5000000)

\* C28, as the code has it: a negative result has confidence <= 0.5; a
\* positive result has E > 0.5, but its confidence is E less the variance
\* penalty (at most 0.2) and may be at or below 0.5; the confidence never
\* exceeds E unless it is the floor 0.1.
RemoteConfidenceAtMostScore ==
    wresult # NoResult =>
        /\ ~wresult.isDiabetic => wresult.confidence <= 5000000
        /\ wresult.isDiabetic => StageE(wresult) > 500
        /\ wresult.confidence <= StageE(wresult) * 10000 \/ wresult.confidence = 1000000
        /\ wresult.confidence >= StageE(wresult) * 10000 - 2000000

\* C29: a record with glucose below 100 is never classified diabetic by the
\* remote pipeline: the glucose stage gives at most 0.2, the metabolic stage
\* at most 1.0 and the demographic stage at most 0.4, so E <= 0.48.
LowGlucoseNeverDiabetic ==
    (wresult # NoResult /\ wm.glucose.v < 1000) =>
        /\ StageG(wresult) <= 20
        /\ StageM(wresult) <= 100
        /\ StageD(wresult) <= 40
        /\ StageE(wresult) <= 480
        /\ ~wresult.isDiabetic
        /\ wresult.diabetesType = "null"
        /\ wresult.riskFactors = <<>>

\* glucose 90 with every other rule at its top tier: E = 0.48, not diabetic
LowGlucoseNeverDiabeticWitness ==
    /\ wresult # NoResult
    /\ wm.glucose = Num(900)
    /\ StageM(wresult) = 100
    /\ StageD(wresult) = 40
    /\ StageE(wresult) = 480
    /\ ~wresult.isDiabetic

----------------------------------------------------------------------------
(* Index page (src/pages/Index.tsx): the form, the loading screen and the   *)
(* result screen around one call of getPredictionAsync.  React applies the  *)
(* state updates of one handler run together, before the next event.       *)

\* metrics submitted from the page
PageMetrics == FairMetrics

InitPage == PageIdle /\ RemoteIdle /\ LocalIdle /\ ServeIdle /\ OrchIdle

\* (mutant) handleFormSubmit without setCurrentStep('loading')
FormSubmittedStaysOnForm ==
    /\ currentStep = "form"
    /\ ~isLoading
    /\ isLoading' = TRUE
    /\ inFlight' = inFlight + 1
    /\ om' \in {m \in PageMetrics : FormAdmits(m)}
    /\ opc' = "start"
    /\ invokeCount' = 0
    /\ invokeResult' = NoResult
    /\ timerMs' = 0
    /\ fallbackCalls' = <<>>
    /\ osettle' = "pending"
    /\ oresult' = NoResult
    /\ UNCHANGED <<currentStep, diagnosisResult, remoteVars, localVars, serveVars>>

\* the form is on screen with its submit button enabled and is submitted:
\* handleFormSubmit up to its await (lines 37-42)
FormSubmitted ==
    /\ currentStep = "form"
    /\ ~isLoading
    /\ isLoading' = TRUE
    /\ currentStep' = "loading"
    /\ inFlight' = inFlight + 1
    /\ om' \in {m \in PageMetrics : FormAdmits(m)}
    /\ opc' = "start"
    /\ invokeCount' = 0
    /\ invokeResult' = NoResult
    /\ timerMs' = 0
    /\ fallbackCalls' = <<>>
    /\ osettle' = "pending"
    /\ oresult' = NoResult
    /\ UNCHANGED <<diagnosisResult, remoteVars, localVars, serveVars>>

\* the awaited promise has settled: the rest of handleFormSubmit (lines 43-49)
PredictionSettled ==
    /\ inFlight > 0
    /\ opc = "done"
    /\ IF osettle = "resolved"
       THEN /\ diagnosisResult' = oresult
            /\ currentStep' = "result"
       ELSE UNCHANGED <<diagnosisResult, currentStep>>     \* catch: logged only
    /\ isLoading' = FALSE
    /\ inFlight' = inFlight - 1
    /\ om' = NoMetrics /\ opc' = "idle" /\ invokeCount' = 0 /\ invokeResult' = NoResult
    /\ timerMs' = 0 /\ fallbackCalls' = <<>> /\ osettle' = "idle" /\ oresult' = NoResult
    /\ UNCHANGED <<remoteVars, localVars, serveVars>>

\* the result screen is on display and its new-assessment button is pressed
NewAssessment ==
    /\ currentStep = "result"
    /\ diagnosisResult # NoResult
    /\ currentStep' = "form"
    /\ diagnosisResult' = NoResult
    /\ UNCHANGED <<isLoading, inFlight, orchVars, remoteVars, localVars, serveVars>>

NextPage ==
    \/ FormSubmitted
    \/ Next
    \/ PredictionSettled
    \/ NewAssessment

SpecPage == InitPage /\ [][NextPage]_vars

\* C30: on the Index page the form is never shown while a prediction is in
\* flight and at most one prediction is in flight; currentStep = 'result'
\* holds only with a non-null diagnosisResult; and every submission whose
\* prediction settles leads to currentStep = 'result', not to a page left
\* in 'loading'.
PageStepsConsistent ==
    /\ [](inFlight > 0 => currentStep # "form")
    /\ [](inFlight \in {0, 1})
    /\ [](currentStep = "result" => diagnosisResult # NoResult)
    /\ [](currentStep = "loading" => inFlight = 1)
    /\ [][inFlight' < inFlight
            => /\ currentStep' = "result"
               /\ diagnosisResult' = oresult
               /\ ~isLoading']_vars

\* a prediction is in flight on the loading screen, waiting for the fallback
\* timer after the remote call failed
PageStepsConsistentWitness ==
    /\ currentStep = "loading"
    /\ inFlight = 1
    /\ isLoading
    /\ opc = "timer"
    /\ diagnosisResult = NoResult

\* a result is on screen after the fallback answered
PageResultShown ==
    /\ currentStep = "result"
    /\ inFlight = 0
    /\ ~isLoading
    /\ diagnosisResult # NoResult
    /\ WellFormedResult(diagnosisResult)

====
